---- MODULE Spec2Model ----
(***************************************************************************)
(* Model of slurm_plugin/capacity_block_manager.py: the CapacityBlock      *)
(* record and the CapacityBlockManager that reconciles EC2 Capacity Block  *)
(* reservations with Slurm reservations.                                   *)
(*                                                                         *)
(* Strings are TLC strings; a Python list is a sequence; a Python dict is  *)
(* a sequence of values in insertion order (the keys are a field of the    *)
(* values).  Time is counted in seconds.                                   *)
(***************************************************************************)
EXTENDS Integers, Sequences, FiniteSets, TLC

VARIABLES
    fleet_config,                  \* self._fleet_config
    capacity_blocks,               \* self._capacity_blocks (dict, insertion order)
    capacity_blocks_update_time,   \* self._capacity_blocks_update_time: <<>> is None, <<t>> a time
    reserved_nodenames,            \* self._reserved_nodenames
    now,                           \* datetime.now(tz=timezone.utc), in seconds
    ec2,                           \* the Capacity Block reservations EC2 knows, id -> state
    slurm,                         \* the Slurm reservations, name -> nodes
    calls,                         \* the collaborator calls the last operation issued
    outcome                        \* what the last operation was and how it ended

vars == <<fleet_config, capacity_blocks, capacity_blocks_update_time, reserved_nodenames,
          now, ec2, slurm, calls, outcome>>

(***************************************************************************)
(* Program constants                                                       *)
(***************************************************************************)
CAPACITY_BLOCK_RESERVATION_UPDATE_PERIOD == 10

SLURM_RESERVATION_NAME_PREFIX == "pcluster-"

CAPACITY_BLOCK == "capacity-block"

ONDEMAND == "on-demand"

(***************************************************************************)
(* Bounds of the model                                                     *)
(***************************************************************************)
\* the clock stops at MaxTime seconds
MaxTime == 1800

\* the collaborator call that fails is one of the first MaxFailAt calls of an operation
MaxFailAt == 5

\* the ids of Capacity Block reservations the name functions are applied to have at most
\* MaxIdLen characters
MaxIdLen == 3

\* the clock advances by one of these steps (5 minutes)
TickSteps == {300}

\* the value of a field that holds Python's None
None == "None"

\* a Capacity Block reservation EC2 does not (or no longer) know
Absent == "absent"

CapacityBlockIds == {"cb1", "cb2"}

CapacityBlockStates == {"pending", "active", "expired"}

\* what EC2 knows when the manager is constructed
InitialEc2 ==
    { e \in [CapacityBlockIds -> CapacityBlockStates \cup {Absent}] :
          e["cb2"] \in {"pending", "active"} }

\* the moves of a Capacity Block reservation through its states
Ec2Transitions == { <<"pending", "active">>, <<"active", "expired">> }

(***************************************************************************)
(* The fleet configurations a manager is constructed with: a sequence of   *)
(* (queue, compute resource, compute resource config) in the order of the  *)
(* nested dict.                                                            *)
(***************************************************************************)
Entry(q, cr, config) == [queue_name |-> q, compute_resource_name |-> cr, config |-> config]

FleetConfigs ==
    { << Entry("q1", "r1", [CapacityType |-> CAPACITY_BLOCK, CapacityReservationId |-> "cb1"]),
         Entry("q1", "r2", [CapacityType |-> CAPACITY_BLOCK, CapacityReservationId |-> "cb2"]) >>,
      << Entry("q1", "r1", [CapacityType |-> CAPACITY_BLOCK, CapacityReservationId |-> "cb1"]),
         Entry("q1", "r2", [CapacityType |-> ONDEMAND]) >>,
      << Entry("q1", "r1", [CapacityType |-> CAPACITY_BLOCK, CapacityReservationId |-> "cb1"]),
         Entry("q1", "r2", [CapacityType |-> CAPACITY_BLOCK, CapacityReservationId |-> "cb1"]) >>,
      << Entry("q1", "r1", [Api |-> "create-fleet", CapacityReservationId |-> "cb1"]),
         Entry("q1", "r2", [CapacityType |-> "spot"]) >>,
      << Entry("q1", "r1", [CapacityType |-> CAPACITY_BLOCK]) >> }

(***************************************************************************)
(* The node inventories a caller passes: SlurmNode(name, queue, resource). *)
(***************************************************************************)
SlurmNode(name, q, cr) == [name |-> name, queue_name |-> q, compute_resource_name |-> cr]

NodeLists ==
    { << >>,
      << SlurmNode("q1-r1-0", "q1", "r1"), SlurmNode("q1-r1-1", "q1", "r1") >>,
      << SlurmNode("q1-r2-0", "q1", "r2"), SlurmNode("q1-r1-0", "q1", "r1"),
         SlurmNode("q2-r1-0", "q2", "r1") >> }

(***************************************************************************)
(* The Slurm reservations a manager can find when it starts: left by an    *)
(* earlier process (prefixed) or made by an administrator.                 *)
(***************************************************************************)
InitialReservations ==
    { << >>,
      [n \in {"pcluster-cb1"} |-> "q1-r1-0"],
      [n \in {"pcluster-cb1", "pcluster-cb3", "maintenance"} |->
          IF n = "pcluster-cb1" THEN "q1-r1-9" ELSE IF n = "pcluster-cb3" THEN "q1-r1-0" ELSE "q1-r1-1"] }

(***************************************************************************)
(* Python helpers                                                          *)
(***************************************************************************)
\* ",".join(names)
RECURSIVE JoinComma(_)
JoinComma(names) ==
    IF names = << >> THEN ""
    ELSE IF Len(names) = 1 THEN names[1]
    ELSE names[1] \o "," \o JoinComma(Tail(names))

\* the keys of a dict of CapacityBlock, in insertion order
Keys(blocks) == [i \in 1..Len(blocks) |-> blocks[i].capacity_block_id]

KeySet(blocks) == {blocks[i].capacity_block_id : i \in 1..Len(blocks)}

\* dict.update({key: value}): a known key keeps its place and takes the new value
DictUpdate(blocks, block) ==
    IF block.capacity_block_id \in KeySet(blocks)
    THEN [i \in 1..Len(blocks) |->
             IF blocks[i].capacity_block_id = block.capacity_block_id THEN block ELSE blocks[i]]
    ELSE Append(blocks, block)

\* common.time_utils.seconds_to_minutes
seconds_to_minutes(value) == value \div 60

(***************************************************************************)
(* class CapacityBlock                                                     *)
(***************************************************************************)
\* mutant: the node names of the record the manager holds for the id are kept
CapacityBlock_KeepNodenames(capacity_block_id, queue_name, compute_resource_name) ==
    [capacity_block_id |-> capacity_block_id,
     queue_name |-> queue_name,
     compute_resource_name |-> compute_resource_name,
     capacity_block_reservation_info |-> None,
     nodenames |-> IF \E i \in 1..Len(capacity_blocks) :
                          capacity_blocks[i].capacity_block_id = capacity_block_id
                   THEN (CHOOSE b \in {capacity_blocks[i] : i \in 1..Len(capacity_blocks)} :
                             b.capacity_block_id = capacity_block_id).nodenames
                   ELSE << >>]

CapacityBlock(capacity_block_id, queue_name, compute_resource_name) ==
    [capacity_block_id |-> capacity_block_id,
     queue_name |-> queue_name,
     compute_resource_name |-> compute_resource_name,
     capacity_block_reservation_info |-> None,
     nodenames |-> << >>]

update_ec2_info(block, capacity_block_reservation_info) ==
    [block EXCEPT !.capacity_block_reservation_info = capacity_block_reservation_info]

\* mutant: the name is the id, without the prefix
slurm_reservation_name_NoPrefix(block) == block.capacity_block_id

slurm_reservation_name(block) == SLURM_RESERVATION_NAME_PREFIX \o block.capacity_block_id

add_nodename(block, nodename) == [block EXCEPT !.nodenames = Append(@, nodename)]

nodenames(block) == block.nodenames

\* state() reads an attribute of _capacity_block_reservation_info: on None it raises
state_raises(block) == block.capacity_block_reservation_info = None

state(block) == block.capacity_block_reservation_info

\* mutant: only a pending Capacity Block is not active
is_active_UnlessPending(block) == state(block) # "pending"

\* mutant: no Capacity Block is ever active
is_active_Never(block) == FALSE

is_active(block) == state(block) = "active"

\* mutant: the queue alone decides
does_node_belong_to_SameQueue(block, node) == node.queue_name = block.queue_name

does_node_belong_to(block, node) ==
    /\ node.queue_name = block.queue_name
    /\ node.compute_resource_name = block.compute_resource_name

\* mutant: the id is what follows the last "-" of the name
slurm_reservation_name_to_id_AfterLastDash(name) ==
    LET dashes == { p \in 1..Len(name) : SubSeq(name, p, p) = "-" }
    IN  IF dashes = {} THEN name
        ELSE SubSeq(name, (CHOOSE p \in dashes : \A q \in dashes : q <= p) + 1, Len(name))

\* mutant: the slice starts one character early and keeps the "-" of the prefix
slurm_reservation_name_to_id_OffByOne(name) ==
    SubSeq(name, Len(SLURM_RESERVATION_NAME_PREFIX), Len(name))

slurm_reservation_name_to_id(name) ==
    SubSeq(name, Len(SLURM_RESERVATION_NAME_PREFIX) + 1, Len(name))

\* mutant: every Slurm reservation is taken for one of the manager
is_capacity_block_slurm_reservation_Any(name) == TRUE

is_capacity_block_slurm_reservation(name) ==
    /\ Len(name) >= Len(SLURM_RESERVATION_NAME_PREFIX)
    /\ SubSeq(name, 1, Len(SLURM_RESERVATION_NAME_PREFIX)) = SLURM_RESERVATION_NAME_PREFIX

(***************************************************************************)
(* CapacityBlockManager: projection of the fleet configuration             *)
(***************************************************************************)
\* mutant: a compute resource without a CapacityType counts as a Capacity Block
_is_compute_resource_associated_to_capacity_block_ByDefault(compute_resource_config) ==
    LET capacity_type == IF "CapacityType" \in DOMAIN compute_resource_config
                         THEN compute_resource_config.CapacityType
                         ELSE CAPACITY_BLOCK
    IN  capacity_type = CAPACITY_BLOCK

_is_compute_resource_associated_to_capacity_block(compute_resource_config) ==
    LET capacity_type == IF "CapacityType" \in DOMAIN compute_resource_config
                         THEN compute_resource_config.CapacityType
                         ELSE "CapacityType.ONDEMAND"
    IN  capacity_type = CAPACITY_BLOCK

\* mutant: the docstring's "None otherwise": a missing id is None and nothing is raised
_capacity_reservation_id_from_compute_resource_config_NoneOtherwise(compute_resource_config) ==
    IF "CapacityReservationId" \in DOMAIN compute_resource_config
    THEN [raised |-> None, value |-> compute_resource_config.CapacityReservationId]
    ELSE [raised |-> None, value |-> None]

\* the id, or the KeyError that is raised again after it is logged
_capacity_reservation_id_from_compute_resource_config(compute_resource_config) ==
    IF "CapacityReservationId" \in DOMAIN compute_resource_config
    THEN [raised |-> None, value |-> compute_resource_config.CapacityReservationId]
    ELSE [raised |-> "KeyError", value |-> None]

RECURSIVE CapacityBlocksFromEntries(_, _, _)
CapacityBlocksFromEntries(config, i, blocks) ==
    IF i > Len(config) THEN [raised |-> None, value |-> blocks]
    ELSE IF _is_compute_resource_associated_to_capacity_block(config[i].config)
    THEN LET id == _capacity_reservation_id_from_compute_resource_config(config[i].config)
         IN  IF id.raised # None THEN [raised |-> id.raised, value |-> << >>]
             ELSE CapacityBlocksFromEntries(config, i + 1,
                      DictUpdate(blocks, CapacityBlock(id.value, config[i].queue_name,
                                                       config[i].compute_resource_name)))
    ELSE CapacityBlocksFromEntries(config, i + 1, blocks)

_capacity_blocks_from_config(config) == CapacityBlocksFromEntries(config, 1, << >>)

(***************************************************************************)
(* The collaborators.  An operation runs on a record m of what it has done  *)
(* so far: the manager's fields (capacity_blocks, update_time, reserved),  *)
(* the Slurm reservations, the calls issued and the exception raised (None *)
(* while none is).  The call number fail_at of the operation raises.       *)
(* Only({ e(x) : x \in {d} }) is "LET x == d IN e(x)" with d evaluated     *)
(* once.                                                                   *)
(***************************************************************************)
Only(S) == CHOOSE x \in S : TRUE

\* start_time is << t >> in a create_slurm_reservation, << >> in the other calls
Call(fn, name, nodes, result, ok) ==
    [fn |-> fn, name |-> name, nodes |-> nodes, start_time |-> << >>, result |-> result,
     ok |-> ok]

Issue(m, fn, name, nodes, result, error, fail_at) ==
    LET ok == Len(m.calls) + 1 # fail_at
    IN  [m EXCEPT !.calls = Append(@, Call(fn, name, nodes, IF ok THEN result ELSE << >>, ok)),
                  !.raised = IF ok THEN None ELSE error]

\* aws.ec2: Ec2Client.describe_capacity_reservations(ids): the state of each id EC2 knows
\* (self.ec2_client() is taken to give the client)
describe_capacity_reservations(capacity_block_ids) ==
    SelectSeq(capacity_block_ids, LAMBDA id : id \in DOMAIN ec2 /\ ec2[id] # Absent)

\* common.schedulers.slurm_reservation_commands
does_slurm_reservation_exist(m, name, fail_at) ==
    Issue(m, "does_slurm_reservation_exist", name, "",
          IF name \in DOMAIN m.slurm THEN << name >> ELSE << >>, "SlurmCommandError", fail_at)

create_slurm_reservation(m, name, start_time, nodes, fail_at) ==
    Only({ IF m1.raised # None THEN m1
           ELSE [m1 EXCEPT !.slurm = [n \in DOMAIN m1.slurm \cup {name} |->
                                         IF n = name THEN nodes ELSE m1.slurm[n]]] :
           m1 \in {[Issue(m, "create_slurm_reservation", name, nodes, << >>,
                          "SlurmCommandError", fail_at)
                       EXCEPT !.calls[Len(m.calls) + 1].start_time = << start_time >>]} })

update_slurm_reservation(m, name, nodes, fail_at) ==
    Only({ IF m1.raised # None THEN m1
           ELSE [m1 EXCEPT !.slurm = [n \in DOMAIN m1.slurm |->
                                         IF n = name THEN nodes ELSE m1.slurm[n]]] :
           m1 \in {Issue(m, "update_slurm_reservation", name, nodes, << >>,
                         "SlurmCommandError", fail_at)} })

delete_slurm_reservation(m, name, fail_at) ==
    Only({ IF m1.raised # None THEN m1
           ELSE [m1 EXCEPT !.slurm = [n \in DOMAIN m1.slurm \ {name} |-> m1.slurm[n]]] :
           m1 \in {Issue(m, "delete_slurm_reservation", name, "", << >>,
                         "SlurmCommandError", fail_at)} })

\* the names of the reservations, in the order scontrol lists them
RECURSIVE ReservationNames(_)
ReservationNames(names) ==
    IF names = {} THEN << >>
    ELSE LET n == CHOOSE x \in names : TRUE
         IN  << n >> \o ReservationNames(names \ {n})

get_slurm_reservations_info(m, fail_at) ==
    Issue(m, "get_slurm_reservations_info", "", "", ReservationNames(DOMAIN m.slurm),
          "SlurmCommandError", fail_at)

(***************************************************************************)
(* CapacityBlockManager                                                    *)
(***************************************************************************)
\* lines 263-265: the states EC2 returned go to their capacity blocks
UpdateEc2Info(blocks, info) ==
    [i \in 1..Len(blocks) |->
        IF \E j \in 1..Len(info) : info[j] = blocks[i].capacity_block_id
        THEN update_ec2_info(blocks[i], ec2[blocks[i].capacity_block_id])
        ELSE blocks[i]]

_update_capacity_blocks_info_from_ec2(m, fail_at) ==
    Only({ IF from_config.raised # None THEN [m EXCEPT !.raised = from_config.raised]
           ELSE IF from_config.value = << >>
           THEN [m EXCEPT !.capacity_blocks = << >>, !.update_time = << now >>]
           ELSE Only({ IF m2.raised # None THEN m2
                       ELSE [m2 EXCEPT
                               !.capacity_blocks = UpdateEc2Info(@, m2.calls[Len(m2.calls)].result),
                               !.update_time = << now >>] :
                       m2 \in {Issue([m EXCEPT !.capacity_blocks = from_config.value],
                                     "describe_capacity_reservations", "",
                                     JoinComma(Keys(from_config.value)),
                                     describe_capacity_reservations(Keys(from_config.value)),
                                     "ClientError", fail_at)} }) :
           from_config \in {_capacity_blocks_from_config(fleet_config)} })

\* the first capacity block of the dict the node belongs to: its index, or 0
FirstBelonging(blocks, node) ==
    IF \E i \in 1..Len(blocks) : does_node_belong_to(blocks[i], node)
    THEN CHOOSE i \in 1..Len(blocks) :
             /\ does_node_belong_to(blocks[i], node)
             /\ \A j \in 1..(i - 1) : ~does_node_belong_to(blocks[j], node)
    ELSE 0

RECURSIVE _associate_nodenames_to_capacity_blocks(_, _)
_associate_nodenames_to_capacity_blocks(blocks, nodes) ==
    IF nodes = << >> THEN blocks
    ELSE Only({ _associate_nodenames_to_capacity_blocks(
                    IF i = 0 THEN blocks ELSE [blocks EXCEPT ![i] = add_nodename(@, nodes[1].name)],
                    Tail(nodes)) :
                i \in {FirstBelonging(blocks, nodes[1])} })

\* m.returned takes the nodes the method returns
_update_slurm_reservation(m, capacity_block, fail_at) ==
    LET slurm_reservation_name_ == slurm_reservation_name(capacity_block)
        capacity_block_nodes == nodenames(capacity_block)
        capacity_block_nodenames == JoinComma(capacity_block_nodes)
    IN  Only({ IF m1.raised # None THEN m1
               ELSE LET reservation_exists == m1.calls[Len(m1.calls)].result # << >>
                    IN  IF state_raises(capacity_block)
                        THEN [m1 EXCEPT !.raised = "AttributeError"]
                        ELSE IF is_active(capacity_block)
                        THEN IF reservation_exists
                             THEN delete_slurm_reservation(
                                      [m1 EXCEPT !.returned = << >>],
                                      slurm_reservation_name_, fail_at)
                             ELSE [m1 EXCEPT !.returned = << >>]
                        ELSE IF reservation_exists
                             THEN update_slurm_reservation(
                                      [m1 EXCEPT !.returned = capacity_block_nodes],
                                      slurm_reservation_name_, capacity_block_nodenames, fail_at)
                             ELSE create_slurm_reservation(
                                      [m1 EXCEPT !.returned = capacity_block_nodes],
                                      slurm_reservation_name_, now, capacity_block_nodenames,
                                      fail_at) :
               m1 \in {does_slurm_reservation_exist(m, slurm_reservation_name_, fail_at)} })

\* the loop of get_reserved_nodenames over self._capacity_blocks.values()
RECURSIVE UpdateSlurmReservations(_, _, _)
UpdateSlurmReservations(m, i, fail_at) ==
    IF i > Len(m.capacity_blocks) THEN m
    ELSE Only({ IF m1.raised # None THEN m1
                ELSE UpdateSlurmReservations([m1 EXCEPT !.local = @ \o m1.returned],
                                             i + 1, fail_at) :
                m1 \in {_update_slurm_reservation(m, m.capacity_blocks[i], fail_at)} })

\* mutant: every listed reservation with the prefix is deleted, configured or not
RECURSIVE CleanupListed_AllPrefixed(_, _, _)
CleanupListed_AllPrefixed(m, listed, fail_at) ==
    IF listed = << >> THEN m
    ELSE Only({ IF m1.raised # None THEN m1
                ELSE CleanupListed_AllPrefixed(m1, Tail(listed), fail_at) :
                m1 \in { IF is_capacity_block_slurm_reservation(listed[1])
                         THEN delete_slurm_reservation(m, listed[1], fail_at)
                         ELSE m } })

\* the loop of _cleanup_leftover_slurm_reservations over the listed reservations
RECURSIVE CleanupListed(_, _, _)
CleanupListed(m, listed, fail_at) ==
    IF listed = << >> THEN m
    ELSE Only({ IF m1.raised # None THEN m1 ELSE CleanupListed(m1, Tail(listed), fail_at) :
                m1 \in { IF /\ is_capacity_block_slurm_reservation(listed[1])
                            /\ slurm_reservation_name_to_id(listed[1])
                                   \notin KeySet(m.capacity_blocks)
                         THEN delete_slurm_reservation(m, listed[1], fail_at)
                         ELSE m } })

\* mutant: the reservations are listed and none is deleted
_cleanup_leftover_slurm_reservations_ListOnly(m, fail_at) ==
    get_slurm_reservations_info(m, fail_at)

_cleanup_leftover_slurm_reservations(m, fail_at) ==
    Only({ IF m1.raised # None THEN m1
           ELSE CleanupListed(m1, m1.calls[Len(m1.calls)].result, fail_at) :
           m1 \in {get_slurm_reservations_info(m, fail_at)} })

\* the operation starts on the manager and the scheduler as they are
Start ==
    [capacity_blocks |-> capacity_blocks,
     update_time |-> capacity_blocks_update_time,
     reserved |-> reserved_nodenames,
     slurm |-> slurm,
     calls |-> << >>,
     raised |-> None,
     local |-> << >>,
     returned |-> << >>]

\* mutant: the update is due as soon as the period is reached
is_time_to_update_AtPeriod ==
    /\ capacity_blocks_update_time # << >>
    /\ seconds_to_minutes(now - capacity_blocks_update_time[1])
           >= CAPACITY_BLOCK_RESERVATION_UPDATE_PERIOD

is_time_to_update ==
    /\ capacity_blocks_update_time # << >>
    /\ seconds_to_minutes(now - capacity_blocks_update_time[1])
           > CAPACITY_BLOCK_RESERVATION_UPDATE_PERIOD

get_reserved_nodenames(m, nodes, fail_at) ==
    IF ~is_time_to_update THEN m
    ELSE Only({ IF m1.raised # None THEN m1
                ELSE Only({ IF m3.raised # None THEN m3
                            ELSE _cleanup_leftover_slurm_reservations(
                                     [m3 EXCEPT !.reserved = m3.local], fail_at) :
                            m3 \in {UpdateSlurmReservations(
                                        [m1 EXCEPT !.capacity_blocks =
                                            _associate_nodenames_to_capacity_blocks(@, nodes)],
                                        1, fail_at)} }) :
                m1 \in {_update_capacity_blocks_info_from_ec2(m, fail_at)} })

(***************************************************************************)
(* The state machine                                                       *)
(***************************************************************************)
\* repeated: a refresh that completed right after one that completed, on equal records
\* input: the argument the operation worked on (the nodes, for a refresh)
\* input_before: the nodes of the refresh that completed right before this refresh
Outcome(op, refreshed, input, m) ==
    [op |-> op,
     at |-> now,
     input |-> input,
     input_before |-> IF /\ op = "get_reserved_nodenames" /\ refreshed
                         /\ outcome.op = op /\ outcome.refreshed /\ outcome.raised = None
                      THEN outcome.input ELSE << >>,
     refreshed |-> refreshed,
     raised |-> m.raised,
     returned |-> IF m.raised = None THEN m.reserved ELSE << >>,
     repeated |-> /\ op = "get_reserved_nodenames" /\ refreshed /\ m.raised = None
                  /\ outcome.op = op /\ outcome.refreshed /\ outcome.raised = None
                  /\ m.capacity_blocks = capacity_blocks]

\* CapacityBlockManager.__init__, in a cluster that has a past
Init ==
    /\ fleet_config \in FleetConfigs
    /\ capacity_blocks = << >>
    /\ capacity_blocks_update_time = << >>
    /\ reserved_nodenames = << >>
    /\ now = 0
    /\ ec2 \in InitialEc2
    /\ slurm \in InitialReservations
    /\ calls = << >>
    /\ outcome = [op |-> "__init__", at |-> 0, input |-> << >>, input_before |-> << >>,
                  refreshed |-> FALSE,
                  raised |-> None, returned |-> << >>, repeated |-> FALSE]

Finish(op, refreshed, input, m) ==
    /\ capacity_blocks' = m.capacity_blocks
    /\ capacity_blocks_update_time' = m.update_time
    /\ reserved_nodenames' = m.reserved
    /\ slurm' = m.slurm
    /\ calls' = m.calls
    /\ outcome' = Outcome(op, refreshed, input, m)
    /\ UNCHANGED <<fleet_config, now, ec2>>

\* a tick of the caller's loop
GetReservedNodenames ==
    \E nodes \in NodeLists, fail_at \in 0..MaxFailAt :
        \E m \in {get_reserved_nodenames(Start, nodes, fail_at)} :
            Finish("get_reserved_nodenames", is_time_to_update,
                   IF is_time_to_update THEN nodes ELSE << >>, m)

\* the call made when the manager is initialized (see the method's docstring)
UpdateCapacityBlocksInfoFromEc2 ==
    /\ outcome.op = "__init__"
    /\ now = 0
    /\ \E fail_at \in 0..MaxFailAt :
        \E m \in {_update_capacity_blocks_info_from_ec2(Start, fail_at)} :
            Finish("_update_capacity_blocks_info_from_ec2", TRUE, << >>, m)

\* time passes
Tick ==
    /\ \E d \in TickSteps : now + d <= MaxTime /\ now' = now + d
    /\ UNCHANGED <<fleet_config, capacity_blocks, capacity_blocks_update_time,
                   reserved_nodenames, ec2, slurm, calls, outcome>>

\* EC2 moves a Capacity Block reservation to its next state
Ec2StateChange ==
    /\ \E id \in CapacityBlockIds, t \in Ec2Transitions :
           /\ ec2[id] = t[1]
           /\ ec2' = [ec2 EXCEPT ![id] = t[2]]
    /\ UNCHANGED <<fleet_config, capacity_blocks, capacity_blocks_update_time,
                   reserved_nodenames, now, slurm, calls, outcome>>

Next ==
    \/ GetReservedNodenames
    \/ UpdateCapacityBlocksInfoFromEc2
    \/ Tick
    \/ Ec2StateChange

Spec == Init /\ [][Next]_vars

\* a tick of the caller's loop during which no collaborator fails
Poll ==
    \E nodes \in NodeLists :
        \E m \in {get_reserved_nodenames(Start, nodes, 0)} :
            Finish("get_reserved_nodenames", is_time_to_update,
                   IF is_time_to_update THEN nodes ELSE << >>, m)

NextLive ==
    \/ Poll
    \/ UpdateCapacityBlocksInfoFromEc2
    \/ Tick
    \/ Ec2StateChange

\* the caller's loop keeps ticking while time passes, and no collaborator fails in a tick
FairSpec == Init /\ [][NextLive]_vars /\ WF_vars(Tick) /\ WF_vars(Poll)

(***************************************************************************)
(* The functions of CapacityBlock that go between the id of a Capacity     *)
(* Block reservation and the name of its Slurm reservation, applied to ids *)
(* and names of any shape.  outcome.input is the argument and              *)
(* outcome.returned the value returned.                                    *)
(***************************************************************************)
IdAlphabet == {"c", "r", "-", "0", "p"}

RECURSIVE Strings(_)
Strings(n) ==
    IF n = 0 THEN {""}
    ELSE LET shorter == Strings(n - 1)
         IN  shorter \cup { str \o c : str \in shorter, c \in IdAlphabet }

ReservationIds == Strings(MaxIdLen) \cup {"cr-0123", "pcluster-", "pcluster-cr-0"}

ReservationNameInputs ==
    { "pcluster-" \o id : id \in ReservationIds } \cup {"maintenance", "pcluster", "Pcluster-cr-0"}

NameInit ==
    /\ fleet_config = << >>
    /\ capacity_blocks = << >>
    /\ capacity_blocks_update_time = << >>
    /\ reserved_nodenames = << >>
    /\ now = 0
    /\ ec2 = [id \in CapacityBlockIds |-> Absent]
    /\ slurm = << >>
    /\ calls = << >>
    /\ outcome = [op |-> "__init__", at |-> 0, input |-> << >>, input_before |-> << >>,
                  refreshed |-> FALSE, raised |-> None, returned |-> << >>, repeated |-> FALSE]

Applied(op, input, returned) ==
    /\ outcome' = [op |-> op, at |-> now, input |-> input, input_before |-> << >>,
                   refreshed |-> FALSE, raised |-> None, returned |-> returned,
                   repeated |-> FALSE]
    /\ UNCHANGED <<fleet_config, capacity_blocks, capacity_blocks_update_time,
                   reserved_nodenames, now, ec2, slurm, calls>>

SlurmReservationName ==
    \E id \in ReservationIds :
        Applied("slurm_reservation_name", id, slurm_reservation_name(CapacityBlock(id, "q1", "r1")))

SlurmReservationNameToId ==
    \E name \in ReservationNameInputs :
        Applied("slurm_reservation_name_to_id", name, slurm_reservation_name_to_id(name))

IsCapacityBlockSlurmReservation ==
    \E name \in ReservationNameInputs \cup ReservationIds :
        Applied("is_capacity_block_slurm_reservation", name,
                is_capacity_block_slurm_reservation(name))

NameNext ==
    \/ SlurmReservationName
    \/ SlurmReservationNameToId
    \/ IsCapacityBlockSlurmReservation

NameSpec == NameInit /\ [][NameNext]_vars

(***************************************************************************)
(* What the properties read                                                *)
(***************************************************************************)
\* a step of get_reserved_nodenames (Tick and Ec2StateChange move now or ec2)
GetStep == outcome'.op = "get_reserved_nodenames" /\ now' = now /\ ec2' = ec2

\* the ids the fleet configuration binds to a compute resource
ConfiguredIds == KeySet(_capacity_blocks_from_config(fleet_config).value)

\* the elements of a sequence
Range(seq) == {seq[i] : i \in 1..Len(seq)}

\* the node names of a comma separated node list
RECURSIVE SplitComma(_)
SplitComma(str) ==
    IF str = "" THEN << >>
    ELSE IF \E p \in 1..Len(str) : SubSeq(str, p, p) = ","
    THEN LET p == CHOOSE q \in 1..Len(str) :
                      /\ SubSeq(str, q, q) = ","
                      /\ \A r \in 1..(q - 1) : SubSeq(str, r, r) # ","
         IN  << SubSeq(str, 1, p - 1) >> \o SplitComma(SubSeq(str, p + 1, Len(str)))
    ELSE << str >>

\* a refresh cycle of get_reserved_nodenames that ran to its end
Completed(o) == o.op = "get_reserved_nodenames" /\ o.refreshed /\ o.raised = None

\* the calls among cs that change the Slurm reservation name
Mutations(cs, name) ==
    { k \in 1..Len(cs) :
          /\ cs[k].name = name
          /\ cs[k].fn \in {"create_slurm_reservation", "update_slurm_reservation",
                            "delete_slurm_reservation"} }

CallsOf(cs, fn) == { k \in 1..Len(cs) : cs[k].fn = fn }

\* a name in the namespace "pcluster-"
HasPrefix(name) == Len(name) >= 9 /\ SubSeq(name, 1, 9) = "pcluster-"

ReservationNameOf(id) == "pcluster-" \o id

\* the node is of the queue and the compute resource of the record
SameIdentity(block, node) ==
    <<node.queue_name, node.compute_resource_name>>
        = <<block.queue_name, block.compute_resource_name>>

\* the node names of the records that are not active, in the order of the dict
RECURSIVE NodenamesNotActive(_)
NodenamesNotActive(blocks) ==
    IF blocks = << >> THEN << >>
    ELSE (IF blocks[1].capacity_block_reservation_info = "active"
          THEN << >> ELSE blocks[1].nodenames) \o NodenamesNotActive(Tail(blocks))

\* every create among cs[k..] is for a name that is not among names when it is issued,
\* every update and every delete for one that is; names follows the calls that succeed
RECURSIVE TargetsAsFound(_, _, _)
TargetsAsFound(cs, k, names) ==
    IF k > Len(cs) THEN TRUE
    ELSE IF cs[k].fn = "create_slurm_reservation"
    THEN /\ cs[k].name \notin names
         /\ TargetsAsFound(cs, k + 1, IF cs[k].ok THEN names \cup {cs[k].name} ELSE names)
    ELSE IF cs[k].fn = "update_slurm_reservation"
    THEN /\ cs[k].name \in names
         /\ TargetsAsFound(cs, k + 1, names)
    ELSE IF cs[k].fn = "delete_slurm_reservation"
    THEN /\ cs[k].name \in names
         /\ TargetsAsFound(cs, k + 1, IF cs[k].ok THEN names \ {cs[k].name} ELSE names)
    ELSE TargetsAsFound(cs, k + 1, names)

\* the names of the nodes, in their order
NodeNames(nodes) == [n \in 1..Len(nodes) |-> nodes[n].name]

\* a refresh cycle of get_reserved_nodenames that came to associate its nodes
Associated(o) ==
    /\ o.op = "get_reserved_nodenames"
    /\ o.refreshed
    /\ o.raised \notin {"KeyError", "ClientError"}

(***************************************************************************)
(* C1: the first invocation of get_reserved_nodenames on a freshly         *)
(* constructed manager (no last-refresh timestamp yet) runs the refresh.   *)
(***************************************************************************)
C1_FirstInvocationRefreshes ==
    [][(GetStep /\ outcome.op = "__init__") => outcome'.refreshed]_vars

(***************************************************************************)
(* C2: with the caller ticking, time passing and no collaborator error, a  *)
(* configured reservation that becomes and stays active ends up with no    *)
(* Slurm reservation pcluster-<id>; one that stays not active ends up with *)
(* its Slurm reservation and its record's nodes in the withheld list.      *)
(***************************************************************************)
C2_ReleasedOnceActive ==
    \A id \in CapacityBlockIds :
        /\ (id \in ConfiguredIds /\ [](outcome.raised = None) /\ <>[](ec2[id] = "active"))
               => <>[](SLURM_RESERVATION_NAME_PREFIX \o id \notin DOMAIN slurm)
        /\ (id \in ConfiguredIds /\ [](outcome.raised = None) /\ [](ec2[id] = "pending"))
               => <>(/\ SLURM_RESERVATION_NAME_PREFIX \o id \in DOMAIN slurm
                     /\ \E i \in 1..Len(capacity_blocks) :
                            /\ capacity_blocks[i].capacity_block_id = id
                            /\ Range(capacity_blocks[i].nodenames) \subseteq Range(reserved_nodenames))

C4_NotActiveIsReserved ==
    [][(GetStep /\ Completed(outcome'))
       => \A i \in 1..Len(capacity_blocks') :
              LET block == capacity_blocks'[i]
                  name == ReservationNameOf(block.capacity_block_id)
                  changes == Mutations(calls', name)
              IN  block.capacity_block_reservation_info \in {"pending", "expired"}
                  => /\ Range(block.nodenames) \subseteq Range(outcome'.returned)
                     /\ Cardinality(changes) = 1
                     /\ \A k \in changes :
                            /\ calls'[k].fn = IF name \in DOMAIN slurm
                                              THEN "update_slurm_reservation"
                                              ELSE "create_slurm_reservation"
                            /\ calls'[k].start_time = IF name \in DOMAIN slurm
                                                      THEN << >> ELSE << now >>
                            /\ SplitComma(calls'[k].nodes) = block.nodenames
                     /\ name \in DOMAIN slurm'
                     /\ SplitComma(slurm'[name]) = block.nodenames]_vars

\* a cycle ran to its end with an expired record that holds a node and whose reservation
\* was updated, and a pending one that holds a node and whose reservation was created
C4_Witness ==
    /\ Completed(outcome)
    /\ \E i, j \in 1..Len(capacity_blocks) :
           /\ capacity_blocks[i].capacity_block_reservation_info = "expired"
           /\ Len(capacity_blocks[i].nodenames) = 1
           /\ \E k \in Mutations(calls, ReservationNameOf(capacity_blocks[i].capacity_block_id)) :
                  calls[k].fn = "update_slurm_reservation"
           /\ capacity_blocks[j].capacity_block_reservation_info = "pending"
           /\ Len(capacity_blocks[j].nodenames) = 1
           /\ \E k \in Mutations(calls, ReservationNameOf(capacity_blocks[j].capacity_block_id)) :
                  calls[k].fn = "create_slurm_reservation"

(***************************************************************************)
(* C5: in a refresh cycle that runs to its end, an active record has none  *)
(* of its nodes in the returned list, gets no create and no update, gets a *)
(* delete exactly when its Slurm reservation existed, and has no           *)
(* reservation afterwards; when the cycle before it ran to its end with    *)
(* the record active too, it gets no delete.                               *)
(***************************************************************************)
C5_ActiveIsReleased ==
    [][(GetStep /\ Completed(outcome'))
       => \A i \in 1..Len(capacity_blocks') :
              LET block == capacity_blocks'[i]
                  name == ReservationNameOf(block.capacity_block_id)
                  changes == Mutations(calls', name)
              IN  block.capacity_block_reservation_info = "active"
                  => /\ Range(block.nodenames) \cap Range(outcome'.returned) = {}
                     /\ \A k \in changes : calls'[k].fn = "delete_slurm_reservation"
                     /\ Cardinality(changes) = IF name \in DOMAIN slurm THEN 1 ELSE 0
                     /\ name \notin DOMAIN slurm'
                     /\ (/\ Completed(outcome)
                         /\ \E j \in 1..Len(capacity_blocks) :
                                /\ capacity_blocks[j].capacity_block_id = block.capacity_block_id
                                /\ capacity_blocks[j].capacity_block_reservation_info = "active")
                            => changes = {}]_vars

\* a cycle ran to its end and deleted the reservation of an active record that holds nodes
C5_Witness ==
    /\ Completed(outcome)
    /\ \E i \in 1..Len(capacity_blocks) :
           /\ capacity_blocks[i].capacity_block_reservation_info = "active"
           /\ capacity_blocks[i].nodenames # << >>
           /\ Mutations(calls, ReservationNameOf(capacity_blocks[i].capacity_block_id)) # {}

(***************************************************************************)
(* C6 as stated: a refresh cycle that runs to its end right after one that *)
(* ran to its end, with the records' states and nodes the same, issues no  *)
(* create, update or delete.                                               *)
(***************************************************************************)
C6_SecondPassIssuesNoMutation ==
    outcome.repeated
        => \A k \in 1..Len(calls) :
               calls[k].fn \notin {"create_slurm_reservation", "update_slurm_reservation",
                                   "delete_slurm_reservation"}

(***************************************************************************)
(* C6 amended: a refresh cycle that runs to its end right after one that   *)
(* ran to its end, with the records' states and nodes the same, issues no  *)
(* create and no delete and leaves every Slurm reservation as it is: its   *)
(* only changing calls are one update per record that is not active, with  *)
(* the node list the reservation already holds.                            *)
(***************************************************************************)
C6_SecondPassChangesNothing ==
    [][(GetStep /\ outcome'.repeated)
       => /\ slurm' = slurm
          /\ CallsOf(calls', "create_slurm_reservation") = {}
          /\ CallsOf(calls', "delete_slurm_reservation") = {}
          /\ \A k \in CallsOf(calls', "update_slurm_reservation") :
                 /\ calls'[k].name \in DOMAIN slurm
                 /\ calls'[k].nodes = slurm[calls'[k].name]
          /\ \A i \in 1..Len(capacity_blocks') :
                 Cardinality(Mutations(calls', ReservationNameOf(capacity_blocks'[i].capacity_block_id)))
                     = IF capacity_blocks'[i].capacity_block_reservation_info = "active"
                       THEN 0 ELSE 1]_vars

\* a second cycle in a row on the same records, one active and one not, both with a node
C6_Witness ==
    /\ outcome.repeated
    /\ CallsOf(calls, "update_slurm_reservation") # {}
    /\ \E i, j \in 1..Len(capacity_blocks) :
           /\ capacity_blocks[i].capacity_block_reservation_info = "active"
           /\ capacity_blocks[j].capacity_block_reservation_info # "active"
           /\ capacity_blocks[i].nodenames # << >>
           /\ capacity_blocks[j].nodenames # << >>

(***************************************************************************)
(* C7: when a step of a refresh cycle raises, the records, the cached list *)
(* of reserved nodes and the last-refresh timestamp are what they were     *)
(* before the invocation.                                                  *)
(***************************************************************************)
C7_FailedRefreshChangesNothing ==
    [][(GetStep /\ outcome'.raised \in {"ClientError", "SlurmCommandError"})
       => UNCHANGED <<capacity_blocks, reserved_nodenames, capacity_blocks_update_time>>]_vars

(***************************************************************************)
(* C8: a refresh cycle in which no collaborator fails and EC2 does not     *)
(* return a configured id runs to its end, and the record of that id has   *)
(* its Slurm reservation with its nodes, which are in the returned list.   *)
(***************************************************************************)
C8_AbsentIdIsReserved ==
    [][(/\ GetStep
        /\ outcome'.refreshed
        /\ \A k \in 1..Len(calls') : calls'[k].ok)
       => \A i \in 1..Len(capacity_blocks') :
              LET block == capacity_blocks'[i]
                  name == ReservationNameOf(block.capacity_block_id)
              IN  ec2[block.capacity_block_id] = Absent
                  => /\ outcome'.raised = None
                     /\ name \in DOMAIN slurm'
                     /\ SplitComma(slurm'[name]) = block.nodenames
                     /\ Range(block.nodenames) \subseteq Range(outcome'.returned)]_vars

(***************************************************************************)
(* C9: in a refresh cycle that runs to its end, the sweep deletes a listed *)
(* reservation exactly when its name has the prefix and the rest of the    *)
(* name is no key of the records; it issues no other call, so none for a   *)
(* reservation of a configured id.                                         *)
(***************************************************************************)
C9_SweepDeletesLeftoversOnly ==
    Completed(outcome)
        => /\ Cardinality(CallsOf(calls, "get_slurm_reservations_info")) = 1
           /\ \A l \in CallsOf(calls, "get_slurm_reservations_info") :
                  /\ \A k \in (l + 1)..Len(calls) :
                         /\ calls[k].fn = "delete_slurm_reservation"
                         /\ calls[k].name \in Range(calls[l].result)
                  /\ \A n \in Range(calls[l].result) :
                         (\E k \in (l + 1)..Len(calls) : calls[k].name = n)
                             <=> /\ HasPrefix(n)
                                 /\ \A i \in 1..Len(capacity_blocks) :
                                        n # ReservationNameOf(capacity_blocks[i].capacity_block_id)

\* a sweep that met a leftover, a reservation of a configured id and a foreign one
C9_Witness ==
    /\ Completed(outcome)
    /\ \E l \in CallsOf(calls, "get_slurm_reservations_info") :
           /\ \E k \in (l + 1)..Len(calls) : calls[k].name = "pcluster-cb3"
           /\ "maintenance" \in Range(calls[l].result)
           /\ \E i \in 1..Len(capacity_blocks) :
                  /\ ReservationNameOf(capacity_blocks[i].capacity_block_id)
                         \in Range(calls[l].result)
                  /\ capacity_blocks[i].nodenames # << >>

(***************************************************************************)
(* C10: no operation of the manager issues a create, update or delete for  *)
(* a name without the prefix, and a Slurm reservation without the prefix   *)
(* stays, with its nodes.                                                  *)
(***************************************************************************)
C10_ForeignReservationsUntouched ==
    [][/\ \A k \in 1..Len(calls') :
              calls'[k].fn \in {"create_slurm_reservation", "update_slurm_reservation",
                                "delete_slurm_reservation"}
                  => HasPrefix(calls'[k].name)
       /\ \A n \in DOMAIN slurm :
              ~HasPrefix(n) => (n \in DOMAIN slurm' /\ slurm'[n] = slurm[n])]_vars

\* a cycle that created, updated or deleted reservations beside a foreign one
C10_Witness ==
    /\ Completed(outcome)
    /\ "maintenance" \in DOMAIN slurm
    /\ CallsOf(calls, "delete_slurm_reservation") # {}
    /\ CallsOf(calls, "create_slurm_reservation") # {}

(***************************************************************************)
(* C11: with a fleet configuration that has no compute resource of type    *)
(* capacity-block, no operation calls describe_capacity_reservations, the  *)
(* manager holds no record, the cached list stays empty and every          *)
(* invocation that returns returns the empty list.                         *)
(***************************************************************************)
C11_NoCapacityBlockNoCloudCall ==
    (\A e \in 1..Len(fleet_config) :
         ~("CapacityType" \in DOMAIN fleet_config[e].config
           /\ fleet_config[e].config.CapacityType = "capacity-block"))
        => /\ CallsOf(calls, "describe_capacity_reservations") = {}
           /\ capacity_blocks = << >>
           /\ reserved_nodenames = << >>
           /\ outcome.raised = None => outcome.returned = << >>

\* a cycle that ran to its end, on nodes, without a Capacity Block in the configuration
C11_Witness ==
    /\ \A e \in 1..Len(fleet_config) :
           ~("CapacityType" \in DOMAIN fleet_config[e].config
             /\ fleet_config[e].config.CapacityType = "capacity-block")
    /\ Completed(outcome)
    /\ Len(outcome.input) = 3
    /\ outcome.returned = << >>
    /\ CallsOf(calls, "get_slurm_reservations_info") # {}

C13_TimestampOnlyAfterFullCycle ==
    [][GetStep
       => /\ (/\ capacity_blocks_update_time' # capacity_blocks_update_time
              /\ outcome'.raised # "AttributeError")
                 => Completed(outcome')
          /\ (/\ outcome.op = "get_reserved_nodenames"
              /\ outcome.refreshed
              /\ outcome.raised = "SlurmCommandError")
                 => outcome'.refreshed]_vars

(***************************************************************************)
(* C14: after a refresh cycle has associated the nodes it was given, every *)
(* node is in the list of at most one record: the first record in the      *)
(* order of the dict with the node's queue and compute resource; every     *)
(* name in a record's list is the name of a given node of the record's     *)
(* queue and compute resource; and a node no record matches is in no list, *)
(* in no returned list and not in the cached list.                         *)
(***************************************************************************)
C14_NodeBoundToFirstMatch ==
    Associated(outcome)
        => /\ \A n \in 1..Len(outcome.input) :
                  LET node == outcome.input[n]
                      matching == { i \in 1..Len(capacity_blocks) :
                                        SameIdentity(capacity_blocks[i], node) }
                      bound == { i \in 1..Len(capacity_blocks) :
                                     node.name \in Range(capacity_blocks[i].nodenames) }
                  IN  /\ Cardinality(bound) <= 1
                      /\ bound = { i \in matching : \A j \in matching : i <= j }
                      /\ matching = {}
                             => /\ node.name \notin Range(outcome.returned)
                                /\ node.name \notin Range(reserved_nodenames)
           /\ \A i \in 1..Len(capacity_blocks) :
                  \A k \in 1..Len(capacity_blocks[i].nodenames) :
                      \E n \in 1..Len(outcome.input) :
                          /\ outcome.input[n].name = capacity_blocks[i].nodenames[k]
                          /\ SameIdentity(capacity_blocks[i], outcome.input[n])

\* a cycle ran to its end on three nodes: one for each of two records, one for none
C14_Witness ==
    /\ Completed(outcome)
    /\ Len(outcome.input) = 3
    /\ Len(capacity_blocks) = 2
    /\ \A i \in 1..Len(capacity_blocks) : Len(capacity_blocks[i].nodenames) = 1
    /\ Len(outcome.returned) = 2

(***************************************************************************)
(* C15: after a refresh cycle has associated the nodes it was given, the   *)
(* list of every record is exactly the names of the given nodes of the     *)
(* record's queue and compute resource, in the order given: a name of a    *)
(* node of the cycle before that is not given again is in no list and,     *)
(* when the cycle runs to its end, not in the cached list.                 *)
(***************************************************************************)
C15_NodenamesRebuiltEveryCycle ==
    Associated(outcome)
        => /\ \A i \in 1..Len(capacity_blocks) :
                  capacity_blocks[i].nodenames
                      = NodeNames(SelectSeq(outcome.input,
                                            LAMBDA node : SameIdentity(capacity_blocks[i], node)))
           /\ \A name \in Range(NodeNames(outcome.input_before))
                             \ Range(NodeNames(outcome.input)) :
                  /\ \A i \in 1..Len(capacity_blocks) :
                         name \notin Range(capacity_blocks[i].nodenames)
                  /\ Completed(outcome) => name \notin Range(reserved_nodenames)

\* a second cycle in a row ran to its end: a node the first one gave to a record is gone,
\* a node it gave is given again, and a new one is given
C15_Witness ==
    /\ Completed(outcome)
    /\ \E i \in 1..Len(capacity_blocks) :
           /\ \E n \in 1..Len(outcome.input_before) :
                  /\ SameIdentity(capacity_blocks[i], outcome.input_before[n])
                  /\ outcome.input_before[n].name \notin Range(NodeNames(outcome.input))
           /\ \E n \in 1..Len(outcome.input_before) :
                  outcome.input_before[n].name \in Range(capacity_blocks[i].nodenames)
    /\ Range(NodeNames(outcome.input)) \ Range(NodeNames(outcome.input_before)) # {}
    /\ reserved_nodenames # << >>

(***************************************************************************)
(* C16: the name of the Slurm reservation of an id gives the id back       *)
(* through slurm_reservation_name_to_id and is a name of the manager for   *)
(* is_capacity_block_slurm_reservation; no other id has the same name; and *)
(* for a name with the prefix "pcluster-", the id recovered is the one id  *)
(* the name is the name of.  is_capacity_block_slurm_reservation holds of  *)
(* the names with the prefix and of no other.                              *)
(***************************************************************************)
C16_NameRoundTrip ==
    /\ outcome.op = "slurm_reservation_name"
           => /\ slurm_reservation_name_to_id(outcome.returned) = outcome.input
              /\ is_capacity_block_slurm_reservation(outcome.returned)
              /\ \A other \in ReservationIds \ {outcome.input} :
                     slurm_reservation_name(CapacityBlock(other, "q1", "r1")) # outcome.returned
    /\ (outcome.op = "slurm_reservation_name_to_id" /\ HasPrefix(outcome.input))
           => /\ "pcluster-" \o outcome.returned = outcome.input
              /\ \A id \in ReservationIds :
                     "pcluster-" \o id = outcome.input <=> id = outcome.returned
    /\ outcome.op = "is_capacity_block_slurm_reservation"
           => outcome.returned = HasPrefix(outcome.input)

\* the id recovered from the name of an id that has itself the prefix and two "-"
C16_Witness ==
    /\ outcome.op = "slurm_reservation_name_to_id"
    /\ outcome.input = "pcluster-pcluster-cr-0"
    /\ outcome.returned = "pcluster-cr-0"

(***************************************************************************)
(* C17: after a refresh cycle that ran to its end, the Slurm reservations  *)
(* with the prefix are exactly those of the records that are not active,   *)
(* each holds exactly the nodes of its record, and the cached list is the  *)
(* node names of the records that are not active, record after record.     *)
(***************************************************************************)
C17_ConvergedAfterCycle ==
    Completed(outcome)
        => /\ { n \in DOMAIN slurm : HasPrefix(n) }
                  = { ReservationNameOf(capacity_blocks[i].capacity_block_id) :
                          i \in { j \in 1..Len(capacity_blocks) :
                                      capacity_blocks[j].capacity_block_reservation_info
                                          # "active" } }
           /\ \A i \in 1..Len(capacity_blocks) :
                  capacity_blocks[i].capacity_block_reservation_info # "active"
                      => SplitComma(slurm[ReservationNameOf(capacity_blocks[i].capacity_block_id)])
                             = capacity_blocks[i].nodenames
           /\ reserved_nodenames = NodenamesNotActive(capacity_blocks)
           /\ outcome.returned = reserved_nodenames

\* a cycle that deleted the reservation of an active record and a leftover, and created
\* that of a record that is not active and holds a node
C17_Witness ==
    /\ Completed(outcome)
    /\ Cardinality(CallsOf(calls, "delete_slurm_reservation")) = 2
    /\ CallsOf(calls, "create_slurm_reservation") # {}
    /\ reserved_nodenames # << >>
    /\ \E n \in DOMAIN slurm : HasPrefix(n)

(***************************************************************************)
(* C18: in one refresh cycle, run to its end or not, no Slurm reservation  *)
(* name gets more than one create, update or delete; the calls before the  *)
(* reservations are listed are for names of records, the calls after it    *)
(* are deletes of names with the prefix that are names of no record; every *)
(* create is for a name that did not exist when it was issued, every       *)
(* update and delete for one that did.                                     *)
(***************************************************************************)
C18_OneMutationPerName ==
    [][(GetStep /\ outcome'.refreshed)
       => LET changing == { k \in 1..Len(calls') :
                               calls'[k].fn \in {"create_slurm_reservation",
                                                 "update_slurm_reservation",
                                                 "delete_slurm_reservation"} }
              listing == CallsOf(calls', "get_slurm_reservations_info")
              ofRecords == { ReservationNameOf(capacity_blocks'[i].capacity_block_id) :
                                 i \in 1..Len(capacity_blocks') }
          IN  /\ \A k \in changing : Cardinality(Mutations(calls', calls'[k].name)) = 1
              /\ \A k \in changing :
                     IF \E l \in listing : l < k
                     THEN /\ calls'[k].fn = "delete_slurm_reservation"
                          /\ HasPrefix(calls'[k].name)
                          /\ calls'[k].name \notin ofRecords
                     ELSE calls'[k].name \in ofRecords
              /\ TargetsAsFound(calls', 1, DOMAIN slurm)]_vars

\* a cycle that updated the reservation of a record, created that of another and deleted
\* a leftover
C18_Witness ==
    /\ Completed(outcome)
    /\ CallsOf(calls, "update_slurm_reservation") # {}
    /\ CallsOf(calls, "create_slurm_reservation") # {}
    /\ \E l \in CallsOf(calls, "get_slurm_reservations_info") :
           \E k \in CallsOf(calls, "delete_slurm_reservation") : l < k

====
